---- MODULE Spec2Model ----
(***************************************************************************)
(* A model of subpls: the OpenSubtitles file hash (os_hash), the Movie     *)
(* record and its selection step (filter_subs), the older selection step   *)
(* (choose_best) and the remote operations of User (login, search,         *)
(* download) with the XML-RPC responses as inputs of the environment.      *)
(***************************************************************************)
EXTENDS Integers, Sequences, FiniteSets, TLC

VARIABLES
    fs,        \* the file system: path -> file
    movies,    \* the Vec<Movie> the caller holds
    user,      \* the User that login returned, if any
    requests,  \* the XML-RPC requests sent so far, in order
    result,    \* what the last operation was given (arg, reply) and returned
    tried,     \* the movies compute_os_hash has been called on
    calls      \* how many times login, search and download have been invoked

vars == <<fs, movies, user, requests, result, tried, calls>>

\* Option<T>
None == [some |-> FALSE]

Some(v) == [some |-> TRUE, val |-> v]

(***************************************************************************)
(* u64 values.  A u64 is kept as four 16-bit limbs, least significant      *)
(* first, so that the whole 64-bit width is modelled exactly.              *)
(***************************************************************************)
LimbBase == 2 ^ 16

\* `filesize as u64` for the sizes of the model (all below 2^31).
U64FromInt(n) == <<n % LimbBase, n \div LimbBase, 0, 0>>

\* A mutant of WrappingAdd: an addition that saturates at 2^64 - 1 instead of
\* wrapping.
SaturatingAdd(a, b) ==
    LET s0 == a[1] + b[1]
        s1 == a[2] + b[2] + (s0 \div LimbBase)
        s2 == a[3] + b[3] + (s1 \div LimbBase)
        s3 == a[4] + b[4] + (s2 \div LimbBase)
    IN  IF s3 >= LimbBase
        THEN <<LimbBase - 1, LimbBase - 1, LimbBase - 1, LimbBase - 1>>
        ELSE <<s0 % LimbBase, s1 % LimbBase, s2 % LimbBase, s3 % LimbBase>>

\* u64::wrapping_add: the sum modulo 2^64 (the carry out of the top limb is
\* dropped).
WrappingAdd(a, b) ==
    LET s0 == a[1] + b[1]
        s1 == a[2] + b[2] + (s0 \div LimbBase)
        s2 == a[3] + b[3] + (s1 \div LimbBase)
        s3 == a[4] + b[4] + (s2 \div LimbBase)
    IN  <<s0 % LimbBase, s1 % LimbBase, s2 % LimbBase, s3 % LimbBase>>

\* mem::transmute::<[u8; 8], u64>(buffer): the buffer's bytes taken in memory
\* order as a u64 of the target, which is little-endian (x86-64, aarch64):
\* buffer[1] is the least significant byte.
Transmute(buffer) ==
    << buffer[1] + 256 * buffer[2], buffer[3] + 256 * buffer[4],
       buffer[5] + 256 * buffer[6], buffer[7] + 256 * buffer[8] >>

(***************************************************************************)
(* Files.  A file is its length and its bytes; the bytes are given by the  *)
(* (few) offsets that hold a non-zero byte, every other byte being zero.   *)
(***************************************************************************)
BLOCK == 65536

ITERATIONS == BLOCK \div 8

ByteAt(f, off) == IF off \in DOMAIN f.marks THEN f.marks[off] ELSE 0

(***************************************************************************)
(* The reader of os_hash: BufReader over the file.  A reader state is      *)
(* [ok, pos, hash]; ok = FALSE is the `?` that left the function.          *)
(***************************************************************************)
\* reader.read_exact(&mut buffer): eight bytes from pos, or UnexpectedEof
\* when fewer than eight are left.
ReadExact(f, pos) ==
    IF pos + 8 <= f.size
    THEN [ok |-> TRUE, buffer |-> [k \in 1..8 |-> ByteAt(f, pos + k - 1)], pos |-> pos + 8]
    ELSE [ok |-> FALSE, buffer |-> [k \in 1..8 |-> 0], pos |-> pos]

\* The loop body after the read: `?` on its result, then transmute and
\* wrapping_add.
AddWord(st, r) ==
    IF r.ok
    THEN [ok |-> TRUE, pos |-> r.pos, hash |-> WrappingAdd(st.hash, Transmute(r.buffer))]
    ELSE [ok |-> FALSE, pos |-> st.pos, hash |-> st.hash]

\* One iteration of either loop: read_exact, transmute, wrapping_add.
Iteration(f, st) == AddWord(st, ReadExact(f, st.pos))

\* `for _ in lo..hi { ... }`: the iterations lo, lo+1, ..., hi-1 in this order,
\* stopping at the first failed read.
RECURSIVE Loop(_, _, _, _)
Loop(f, st, lo, hi) ==
    IF ~st.ok \/ hi <= lo THEN st
    ELSE IF hi - lo = 1 THEN Iteration(f, st)
    ELSE LET mid == (lo + hi) \div 2
         IN  Loop(f, Loop(f, st, lo, mid), mid, hi)

\* A mutant of SeekEnd: seeking back into the block already read is an
\* error.
SeekEndNoOverlap(f, st) ==
    IF f.size - BLOCK >= st.pos
    THEN [st EXCEPT !.pos = f.size - BLOCK]
    ELSE [st EXCEPT !.ok = FALSE]

\* reader.seek(SeekFrom::End(-BLOCK)): an error when the position would be
\* negative.
SeekEnd(f, st) ==
    IF f.size - BLOCK >= 0
    THEN [st EXCEPT !.pos = f.size - BLOCK]
    ELSE [st EXCEPT !.ok = FALSE]

(***************************************************************************)
(* format!("{:01$x}", hash, 16): lowercase hex, zero-padded to width 16.   *)
(***************************************************************************)
HexChar(d) ==
    CASE d = 0 -> "0" [] d = 1 -> "1" [] d = 2 -> "2" [] d = 3 -> "3"
      [] d = 4 -> "4" [] d = 5 -> "5" [] d = 6 -> "6" [] d = 7 -> "7"
      [] d = 8 -> "8" [] d = 9 -> "9" [] d = 10 -> "a" [] d = 11 -> "b"
      [] d = 12 -> "c" [] d = 13 -> "d" [] d = 14 -> "e" [] d = 15 -> "f"

\* The sixteen nibbles of a u64, most significant first.
Nibbles(h) ==
    [i \in 1..16 |->
        LET limb == h[4 - ((i - 1) \div 4)]
            k    == 3 - ((i - 1) % 4)
        IN  (limb \div (16 ^ k)) % 16]

\* The nibbles without their leading zeros (the last nibble always stays).
RECURSIVE StripZeros(_)
StripZeros(ns) ==
    IF Len(ns) > 1 /\ ns[1] = 0 THEN StripZeros(Tail(ns)) ELSE ns

RECURSIVE Digits(_)
Digits(ns) == IF Len(ns) = 0 THEN "" ELSE HexChar(ns[1]) \o Digits(Tail(ns))

\* The digits of {:x}: lowercase hex, no leading zeros, at least one digit.
LowerHex(h) == Digits(StripZeros(Nibbles(h)))

RECURSIVE PadLeft(_, _)
PadLeft(s, width) == IF Len(s) >= width THEN s ELSE PadLeft("0" \o s, width)

\* A mutant of FormatHash: {:x} without the width.
FormatHashNoPad(h) == LowerHex(h)

FormatHash(h) == PadLeft(LowerHex(h), 16)

(***************************************************************************)
(* os_hash(path) -> Result<Hash, io::Error>                                *)
(***************************************************************************)
IoError == [ok |-> FALSE, err |-> "Io"]

os_hash(f) ==
    IF ~f.exists THEN IoError
    ELSE
      LET st0 == [ok |-> TRUE, pos |-> 0, hash |-> U64FromInt(f.size)]
          st1 == Loop(f, st0, 0, ITERATIONS)
          st2 == IF st1.ok THEN SeekEnd(f, st1) ELSE st1
          st3 == Loop(f, st2, 0, ITERATIONS)
      IN  IF st3.ok
          THEN [ok |-> TRUE, hash |-> FormatHash(st3.hash), size |-> f.size]
          ELSE IoError

(***************************************************************************)
(* Movie                                                                   *)
(***************************************************************************)
\* Movie::new(path)
NewMovie(path) == [path |-> path, os_info |-> None, subs |-> <<>>]

\* Movie::collection(files)
Collection(files) == [i \in 1..Len(files) |-> NewMovie(files[i])]

NoResult == [op |-> "none"]

\* What compute_os_hash does with the result r of os_hash: os_info is assigned
\* only when r is Ok; `?` returns the error before the assignment.
StoreHash(i, r) ==
    IF r.ok
    THEN /\ movies' = [movies EXCEPT ![i].os_info =
                          Some([hash |-> r.hash, size |-> r.size])]
         /\ result' = [op |-> "compute_os_hash", movie |-> i, ok |-> TRUE]
    ELSE /\ movies' = movies
         /\ result' = [op |-> "compute_os_hash", movie |-> i,
                       ok |-> FALSE, err |-> "Io"]

\* A mutant of ComputeOsHash: the error is swallowed and a default Hash is
\* stored (os_hash(..).unwrap_or_default()).
ComputeOsHashDefault(i) ==
    /\ i \in 1..Len(movies)
    /\ i \notin tried
    /\ \E r \in {os_hash(fs[movies[i].path])} :
         StoreHash(i, IF r.ok THEN r ELSE [ok |-> TRUE, hash |-> "", size |-> 0])
    /\ tried' = tried \cup {i}
    /\ UNCHANGED <<fs, user, requests, calls>>

\* Movie::compute_os_hash on movies[i], called once for each movie.
ComputeOsHash(i) ==
    /\ i \in 1..Len(movies)
    /\ i \notin tried
    /\ \E r \in {os_hash(fs[movies[i].path])} : StoreHash(i, r)
    /\ tried' = tried \cup {i}
    /\ UNCHANGED <<fs, user, requests, calls>>

(***************************************************************************)
(* f64 ratings.  A rating is [nan, x]: x counts tenths (7.5 is x = 75),    *)
(* and nan marks NaN, which compares false with everything.                *)
(***************************************************************************)
FNum(x) == [nan |-> FALSE, x |-> x]

FNaN == [nan |-> TRUE, x |-> 0]

\* a > b and a < b on f64
FGt(a, b) == ~a.nan /\ ~b.nan /\ a.x > b.x

FLt(a, b) == ~a.nan /\ ~b.nan /\ a.x < b.x

IsDigit(c) == c \in {"0", "1", "2", "3", "4", "5", "6", "7", "8", "9"}

DigitVal(c) == CHOOSE d \in 0..9 : SubSeq("0123456789", d + 1, d + 1) = c

AllDigits(s) == \A k \in 1..Len(s) : IsDigit(SubSeq(s, k, k))

RECURSIVE DecimalVal(_)
DecimalVal(s) ==
    IF Len(s) = 0 THEN 0
    ELSE 10 * DecimalVal(SubSeq(s, 1, Len(s) - 1)) + DigitVal(SubSeq(s, Len(s), Len(s)))

\* The unsigned part of a decimal literal, in tenths: digits, or digits "."
\* digit (the literals of the model carry at most one fractional digit).
ParseUnsigned(s) ==
    IF Len(s) >= 1 /\ AllDigits(s) THEN Some(10 * DecimalVal(s))
    ELSE IF /\ Len(s) >= 3
            /\ SubSeq(s, Len(s) - 1, Len(s) - 1) = "."
            /\ AllDigits(SubSeq(s, 1, Len(s) - 2))
            /\ IsDigit(SubSeq(s, Len(s), Len(s)))
         THEN Some(10 * DecimalVal(SubSeq(s, 1, Len(s) - 2))
                     + DigitVal(SubSeq(s, Len(s), Len(s))))
         ELSE None

\* str::parse::<f64>(): Some(value), or None for text that is no number.
ParseF64(s) ==
    IF s = "NaN" THEN Some(FNaN)
    ELSE IF Len(s) >= 1 /\ SubSeq(s, 1, 1) = "-"
         THEN LET u == ParseUnsigned(SubSeq(s, 2, Len(s)))
              IN  IF u.some THEN Some(FNum(0 - u.val)) ELSE None
         ELSE LET u == ParseUnsigned(s)
              IN  IF u.some THEN Some(FNum(u.val)) ELSE None

\* .parse().unwrap_or(0f64)
ParseRating(s) == LET r == ParseF64(s) IN IF r.some THEN r.val ELSE FNum(0)

(***************************************************************************)
(* xmlrpc::Value: [t, s, n, a, m] with t the variant; the payload of a     *)
(* String is s, of an Int n, of an Array the sequence a, of a Struct the   *)
(* function m from its member names.  The fields of the other variants     *)
(* hold a fixed filler.                                                    *)
(***************************************************************************)
\* HashMap::new() / BTreeMap::new()
EmptyMap == [k \in {} |-> k]

Str(s) == [t |-> "string", s |-> s, n |-> 0, a |-> <<>>, m |-> EmptyMap]

IntVal(n) == [t |-> "int", s |-> "", n |-> n, a |-> <<>>, m |-> EmptyMap]

Arr(items) == [t |-> "array", s |-> "", n |-> 0, a |-> items, m |-> EmptyMap]

Struct(members) == [t |-> "struct", s |-> "", n |-> 0, a |-> <<>>, m |-> members]

\* Value::get(name): the member of a Struct, None for any other variant.
Get(value, name) ==
    IF value.t = "struct" /\ name \in DOMAIN value.m THEN Some(value.m[name]) ELSE None

\* .and_then(|x| x.as_str())
AsStr(opt) == IF opt.some /\ opt.val.t = "string" THEN Some(opt.val.s) ELSE None

\* .and_then(|x| x.as_array())
AsArray(opt) == IF opt.some /\ opt.val.t = "array" THEN Some(opt.val.a) ELSE None

\* .and_then(|x| x.as_struct())
AsStruct(opt) == IF opt.some /\ opt.val.t = "struct" THEN Some(opt.val) ELSE None

(***************************************************************************)
(* Movie::filter_subs                                                      *)
(***************************************************************************)
\* The initial `highest` of filter_subs, -1f64, in tenths.
InitialHighest == -10

\* A mutant of HighestStep: `>=` for `>`, which lets the last of equal
\* ratings win.
HighestStepGe(acc, sub) ==
    IF ~FLt(sub.rating, acc.highest) /\ ~sub.rating.nan
    THEN [highest |-> sub.rating, id |-> sub.id]
    ELSE acc

\* The body of the loop: if sub.rating > highest { highest = ..; id = .. }
HighestStep(acc, sub) ==
    IF FGt(sub.rating, acc.highest)
    THEN [highest |-> sub.rating, id |-> sub.id]
    ELSE acc

RECURSIVE HighestOf(_, _)
HighestOf(subs, acc) ==
    IF Len(subs) = 0 THEN acc
    ELSE HighestOf(Tail(subs), HighestStep(acc, Head(subs)))

RetainId(subs, id) == SelectSeq(subs, LAMBDA sub : sub.id = id)

filter_subs(subs) ==
    RetainId(subs, HighestOf(subs, [highest |-> FNum(InitialHighest), id |-> ""]).id)

\* Movie::filter_subs on movies[i]
FilterSubs(i) ==
    /\ i \in 1..Len(movies)
    /\ movies' = [movies EXCEPT ![i].subs = filter_subs(movies[i].subs)]
    /\ result' = [op |-> "filter_subs", movie |-> i, arg |-> movies[i].subs]
    /\ UNCHANGED <<fs, user, requests, tried, calls>>

(***************************************************************************)
(* User::choose_best (src/user/mod.rs): candidates are the older           *)
(* Subtitles [moviehash, subid, rating, sublanguageid].                    *)
(***************************************************************************)
\* The body of the loop over candidates.
BestStep(best, cand, language) ==
    IF cand.sublanguageid # language THEN best
    ELSE IF cand.moviehash \notin DOMAIN best
         THEN (cand.moviehash :> cand) @@ best
         ELSE IF FLt(best[cand.moviehash].rating, cand.rating)
              THEN (cand.moviehash :> cand) @@ best
              ELSE best

RECURSIVE BestOf(_, _, _)
BestOf(candidates, best, language) ==
    IF Len(candidates) = 0 THEN best
    ELSE BestOf(Tail(candidates), BestStep(best, Head(candidates), language), language)

choose_best(candidates, language) == BestOf(candidates, EmptyMap, language)

\* self.choose_best(candidates)
ChooseBest(candidates) ==
    /\ user.some
    /\ result' = [op |-> "choose_best", arg |-> candidates,
                  ret |-> choose_best(candidates, user.val.sublanguageid)]
    /\ UNCHANGED <<fs, movies, user, requests, tried, calls>>

(***************************************************************************)
(* User (src/subs.rs): login, search, download.  The reply of the remote   *)
(* service is the environment's: [delivered, value], delivered = FALSE     *)
(* being a transport error of call_url.                                    *)
(***************************************************************************)
\* How many times each of login, search and download may be invoked.
MaxCalls == 1

LOGIN_LOCATION == "https://api.opensubtitles.org/xml-rpc"

TransportError == [delivered |-> FALSE, value |-> Str("")]

Delivered(value) == [delivered |-> TRUE, value |-> value]

\* A mutant of response_status: a missing status is taken for success.
response_status_lenient(response) ==
    LET status == AsStr(Get(response, "status"))
    IN  IF status.some /\ status.val # "200 OK"
        THEN [ok |-> FALSE, err |-> "BadStatus", status |-> status.val]
        ELSE [ok |-> TRUE]

\* User::response_status
response_status(response) ==
    LET status == AsStr(Get(response, "status"))
    IN  IF status.some
        THEN IF status.val = "200 OK"
             THEN [ok |-> TRUE]
             ELSE [ok |-> FALSE, err |-> "BadStatus", status |-> status.val]
        ELSE [ok |-> FALSE, err |-> "Malformed"]

\* A mutant of StatusError: every failed status check is reported as
\* Malformed.
StatusErrorMalformed(op, st, arg, reply) ==
    [op |-> op, ok |-> FALSE, err |-> "Malformed", arg |-> arg, reply |-> reply]

\* The Err(..) a failed status check returns from `op`.
StatusError(op, st, arg, reply) ==
    IF st.err = "BadStatus"
    THEN [op |-> op, ok |-> FALSE, err |-> "BadStatus", status |-> st.status,
          arg |-> arg, reply |-> reply]
    ELSE [op |-> op, ok |-> FALSE, err |-> "Malformed", arg |-> arg, reply |-> reply]

\* login_request: the LogIn request, always sent to LOGIN_LOCATION.
login_request(username, password, language) ==
    [method |-> "LogIn", url |-> LOGIN_LOCATION,
     params |-> <<Str(username), Str(password), Str(language), Str("TemporaryUserAgent")>>]

\* A mutant of ApiOf: the user always keeps LOGIN_LOCATION.
ApiOfFixed(response) == LOGIN_LOCATION

\* data.Content-Location of the response, or LOGIN_LOCATION.
ApiOf(response) ==
    LET cl == AsStr(Get(IF AsStruct(Get(response, "data")).some
                        THEN Get(response, "data").val ELSE Str(""),
                        "Content-Location"))
    IN  IF cl.some THEN cl.val ELSE LOGIN_LOCATION

\* User::login(username, password, language)
Login(username, password, language, reply) ==
    /\ ~user.some
    /\ calls.login < MaxCalls
    /\ calls' = [calls EXCEPT !.login = @ + 1]
    /\ requests' = Append(requests, login_request(username, password, language))
    /\ IF ~reply.delivered
       THEN /\ result' = [op |-> "login", ok |-> FALSE, err |-> "Xmlrpc", arg |-> language,
                          reply |-> reply]
            /\ UNCHANGED user
       ELSE LET st == response_status(reply.value)
                token == AsStr(Get(reply.value, "token"))
            IN  IF ~st.ok
                THEN /\ result' = StatusError("login", st, language, reply)
                     /\ UNCHANGED user
                ELSE IF ~token.some
                THEN /\ result' = [op |-> "login", ok |-> FALSE, err |-> "NoToken", arg |-> language,
                                  reply |-> reply]
                     /\ UNCHANGED user
                ELSE /\ result' = [op |-> "login", ok |-> TRUE, arg |-> language, reply |-> reply]
                     /\ user' = Some([api |-> ApiOf(reply.value), token |-> token.val,
                                      sublanguageid |-> language])
    /\ UNCHANGED <<fs, movies, tried>>

\* `os_info.size as i64`: the sizes of the model are below 2^31, where the
\* cast keeps the value.
AsI64(n) == n

\* A mutant of Prepared: an entry for every movie, an empty fingerprint for a
\* movie without os_info.
RECURSIVE PreparedAll(_, _)
PreparedAll(ms, language) ==
    IF Len(ms) = 0 THEN <<>>
    ELSE <<Struct([moviehash |-> Str(IF Head(ms).os_info.some
                                     THEN Head(ms).os_info.val.hash ELSE ""),
                   moviebytesize |-> IntVal(IF Head(ms).os_info.some
                                            THEN Head(ms).os_info.val.size ELSE 0),
                   sublanguageid |-> Str(language)])>> \o PreparedAll(Tail(ms), language)

\* The entries search_request prepares: one for each movie with os_info, in
\* the order of the movies.
RECURSIVE Prepared(_, _)
Prepared(ms, language) ==
    IF Len(ms) = 0 THEN <<>>
    ELSE (IF Head(ms).os_info.some
          THEN <<Struct([moviehash |-> Str(Head(ms).os_info.val.hash),
                         moviebytesize |-> IntVal(AsI64(Head(ms).os_info.val.size)),
                         sublanguageid |-> Str(language)])>>
          ELSE <<>>) \o Prepared(Tail(ms), language)

search_request(u, prepared) ==
    [method |-> "SearchSubtitles", url |-> u.api,
     params |-> <<Str(u.token), Arr(prepared)>>]

\* The five members extract_subids reads of an item, in its order.
SearchFields == <<"MovieHash", "IDSubtitleFile", "SubFormat", "SubRating", "SubLanguageID">>

\* extract_item: the map with the item's Subtitles appended to the entry of
\* its MovieHash; unchanged when the item is no Struct or a member is missing
\* or no string.
ExtractItem(ret, item) ==
    IF item.t # "struct" THEN ret
    ELSE IF \E k \in 1..Len(SearchFields) : ~AsStr(Get(item, SearchFields[k])).some
    THEN ret
    ELSE LET hash == item.m["MovieHash"].s
             sub  == [format |-> item.m["SubFormat"].s,
                      id     |-> item.m["IDSubtitleFile"].s,
                      rating |-> ParseRating(item.m["SubRating"].s),
                      lang   |-> item.m["SubLanguageID"].s,
                      b64gz  |-> None]
         IN  IF hash \in DOMAIN ret
             THEN [ret EXCEPT ![hash] = Append(@, sub)]
             ELSE (hash :> <<sub>>) @@ ret

RECURSIVE ExtractItems(_, _)
ExtractItems(ret, items) ==
    IF Len(items) = 0 THEN ret
    ELSE ExtractItems(ExtractItem(ret, Head(items)), Tail(items))

\* User::extract_subids: MovieHash -> Vec<Subtitles>
extract_subids(response) ==
    LET results == AsArray(Get(response, "data"))
    IN  IF results.some THEN ExtractItems(EmptyMap, results.val) ELSE EmptyMap

\* HashMap::remove(key)
MapRemove(map, key) == [k \in DOMAIN map \ {key} |-> map[k]]

\* A mutant of AssignSubs: no movie takes its subs when some movie of the
\* batch has no os_info.
AssignSubsAllOrNone(ms, subs_map) ==
    IF \E i \in 1..Len(ms) : ~ms[i].os_info.some THEN ms
    ELSE [i \in 1..Len(ms) |->
             [ms[i] EXCEPT !.subs = IF ms[i].os_info.val.hash \in DOMAIN subs_map
                                    THEN subs_map[ms[i].os_info.val.hash] ELSE <<>>]]

\* The loop of search over the movies: each movie with os_info takes
\* subs_map.remove(hash).unwrap_or_default().
RECURSIVE AssignSubs(_, _)
AssignSubs(ms, subs_map) ==
    IF Len(ms) = 0 THEN <<>>
    ELSE LET movie == Head(ms)
         IN  IF movie.os_info.some
             THEN <<[movie EXCEPT !.subs =
                        IF movie.os_info.val.hash \in DOMAIN subs_map
                        THEN subs_map[movie.os_info.val.hash] ELSE <<>>]>>
                  \o AssignSubs(Tail(ms), MapRemove(subs_map, movie.os_info.val.hash))
             ELSE <<movie>> \o AssignSubs(Tail(ms), subs_map)

\* User::search(movies).  The movies are moved into the call: on an error the
\* caller is left with none.
Search(reply) ==
    /\ user.some
    /\ calls.search < MaxCalls
    /\ calls' = [calls EXCEPT !.search = @ + 1]
    /\ LET prepared == Prepared(movies, user.val.sublanguageid)
       IN  IF Len(prepared) < 1
           THEN /\ result' = [op |-> "search", ok |-> FALSE, err |-> "NothingToSearch",
                              arg |-> movies]
                /\ movies' = <<>>
                /\ UNCHANGED requests
           ELSE /\ requests' = Append(requests, search_request(user.val, prepared))
                /\ IF ~reply.delivered
                   THEN /\ result' = [op |-> "search", ok |-> FALSE, err |-> "Xmlrpc",
                                      arg |-> movies, reply |-> reply]
                        /\ movies' = <<>>
                   ELSE LET st == response_status(reply.value)
                        IN  IF ~st.ok
                            THEN /\ result' = StatusError("search", st, movies, reply)
                                 /\ movies' = <<>>
                            ELSE /\ result' = [op |-> "search", ok |-> TRUE, arg |-> movies,
                                              reply |-> reply]
                                 /\ movies' = AssignSubs(movies, extract_subids(reply.value))
    /\ UNCHANGED <<fs, user, tried>>

\* A mutant of SubIds: the first sub of each movie alone.
RECURSIVE SubIdsFirst(_)
SubIdsFirst(ms) ==
    IF Len(ms) = 0 THEN <<>>
    ELSE (IF Len(Head(ms).subs) = 0 THEN <<>> ELSE <<Str(Head(ms).subs[1].id)>>)
         \o SubIdsFirst(Tail(ms))

\* The ids download collects: every sub of every movie, in order.
RECURSIVE SubIds(_)
SubIds(ms) ==
    IF Len(ms) = 0 THEN <<>>
    ELSE [k \in 1..Len(Head(ms).subs) |-> Str(Head(ms).subs[k].id)] \o SubIds(Tail(ms))

download_request(u, sub_ids) ==
    [method |-> "DownloadSubtitles", url |-> u.api,
     params |-> <<Str(u.token), Arr(sub_ids)>>]

\* extract_item of download: b64gzs.insert(idsubtitlefile, data); unchanged
\* when the item is no Struct or either member is missing or no string.
PayloadItem(b64gzs, item) ==
    IF item.t # "struct" THEN b64gzs
    ELSE IF ~AsStr(Get(item, "data")).some \/ ~AsStr(Get(item, "idsubtitlefile")).some
    THEN b64gzs
    ELSE (item.m["idsubtitlefile"].s :> item.m["data"].s) @@ b64gzs

RECURSIVE PayloadItems(_, _)
PayloadItems(b64gzs, items) ==
    IF Len(items) = 0 THEN b64gzs
    ELSE PayloadItems(PayloadItem(b64gzs, Head(items)), Tail(items))

Payloads(response) ==
    LET results == AsArray(Get(response, "data"))
    IN  IF results.some THEN PayloadItems(EmptyMap, results.val) ELSE EmptyMap

\* A mutant of AssignPayloads: an id the response does not carry gets an
\* empty payload.
AssignPayloadsEmpty(ms, b64gzs) ==
    [i \in 1..Len(ms) |->
        [ms[i] EXCEPT !.subs =
            [k \in 1..Len(ms[i].subs) |->
                [ms[i].subs[k] EXCEPT !.b64gz =
                    IF ms[i].subs[k].id \in DOMAIN b64gzs
                    THEN Some(b64gzs[ms[i].subs[k].id]) ELSE Some("")]]]]

\* sub.b64gz = b64gzs.get(&sub.id).map(|b| b.clone()) for every sub of every
\* movie.
AssignPayloads(ms, b64gzs) ==
    [i \in 1..Len(ms) |->
        [ms[i] EXCEPT !.subs =
            [k \in 1..Len(ms[i].subs) |->
                [ms[i].subs[k] EXCEPT !.b64gz =
                    IF ms[i].subs[k].id \in DOMAIN b64gzs
                    THEN Some(b64gzs[ms[i].subs[k].id]) ELSE None]]]]

\* User::download(movies).  The movies are moved into the call: on an error
\* the caller is left with none.
Download(reply) ==
    /\ user.some
    /\ calls.download < MaxCalls
    /\ calls' = [calls EXCEPT !.download = @ + 1]
    /\ requests' = Append(requests, download_request(user.val, SubIds(movies)))
    /\ IF ~reply.delivered
       THEN /\ result' = [op |-> "download", ok |-> FALSE, err |-> "Xmlrpc", arg |-> movies,
                          reply |-> reply]
            /\ movies' = <<>>
       ELSE LET st == response_status(reply.value)
            IN  IF ~st.ok
                THEN /\ result' = StatusError("download", st, movies, reply)
                     /\ movies' = <<>>
                ELSE /\ result' = [op |-> "download", ok |-> TRUE, arg |-> movies, reply |-> reply]
                     /\ movies' = AssignPayloads(movies, Payloads(reply.value))
    /\ UNCHANGED <<fs, user, tried>>

(***************************************************************************)
(* Paths (std::path).  A path is its string; the paths of the model hold   *)
(* no "." component and no "//".                                           *)
(***************************************************************************)
\* The path without its trailing separators.
RECURSIVE StripSeparators(_)
StripSeparators(p) ==
    IF Len(p) > 0 /\ SubSeq(p, Len(p), Len(p)) = "/"
    THEN StripSeparators(SubSeq(p, 1, Len(p) - 1))
    ELSE p

\* The position of the last occurrence of the character c in s at or before
\* k, 0 when there is none.
RECURSIVE LastIndexOf(_, _, _)
LastIndexOf(s, c, k) ==
    IF k = 0 THEN 0
    ELSE IF SubSeq(s, k, k) = c THEN k ELSE LastIndexOf(s, c, k - 1)

\* Path::file_name: the last component when it is a normal one.
file_name(p) ==
    LET q    == StripSeparators(p)
        name == SubSeq(q, LastIndexOf(q, "/", Len(q)) + 1, Len(q))
    IN  IF name \in {"", ".."} THEN None ELSE Some(name)

\* Path::file_stem: the file name up to its last ".", the whole name when it
\* has none or only a leading one.
file_stem(p) ==
    LET name == file_name(p)
    IN  IF ~name.some THEN None
        ELSE LET dot == LastIndexOf(name.val, ".", Len(name.val))
             IN  IF dot <= 1 THEN name ELSE Some(SubSeq(name.val, 1, dot - 1))

\* A mutant of set_extension: the extension is appended to the whole name.
add_extension(p, extension) ==
    IF ~file_name(p).some THEN [ok |-> FALSE, path |-> p]
    ELSE [ok |-> TRUE, path |-> StripSeparators(p) \o "." \o extension]

\* PathBuf::set_extension(extension): false when there is no file name;
\* otherwise the path is cut after the file stem and "." and the extension
\* are appended (nothing for an empty extension).
set_extension(p, extension) ==
    LET stem == file_stem(p)
    IN  IF ~stem.some THEN [ok |-> FALSE, path |-> p]
        ELSE LET q     == StripSeparators(p)
                 start == LastIndexOf(q, "/", Len(q))
                 cut   == SubSeq(q, 1, start + Len(stem.val))
             IN  [ok |-> TRUE,
                  path |-> IF extension = "" THEN cut ELSE cut \o "." \o extension]

(***************************************************************************)
(* base64::decode, standard alphabet.  Bytes are a sequence of 0..255.     *)
(* The payloads of the model are padded to a multiple of four characters   *)
(* or hold a character outside the alphabet.                               *)
(***************************************************************************)
Base64Alphabet == "ABCDEFGHIJKLMNOPQRSTUVWXYZabcdefghijklmnopqrstuvwxyz0123456789+/"

\* The six bits of a character of the alphabet, -1 for any other character.
Sextet(c) ==
    IF \E k \in 1..64 : SubSeq(Base64Alphabet, k, k) = c
    THEN (CHOOSE k \in 1..64 : SubSeq(Base64Alphabet, k, k) = c) - 1
    ELSE -1

\* The text without its one or two characters of padding.
StripPadding(s) ==
    IF Len(s) >= 2 /\ SubSeq(s, Len(s) - 1, Len(s)) = "==" THEN SubSeq(s, 1, Len(s) - 2)
    ELSE IF Len(s) >= 1 /\ SubSeq(s, Len(s), Len(s)) = "=" THEN SubSeq(s, 1, Len(s) - 1)
    ELSE s

\* The bytes of the sextets from position k on: three of four sextets, two
\* of a last three, one of a last two.
RECURSIVE Quanta(_, _)
Quanta(sx, k) ==
    LET left == Len(sx) - k + 1
    IN  IF left <= 0 THEN <<>>
        ELSE IF left >= 4
        THEN << sx[k] * 4 + sx[k + 1] \div 16,
                (sx[k + 1] % 16) * 16 + sx[k + 2] \div 4,
                (sx[k + 2] % 4) * 64 + sx[k + 3] >> \o Quanta(sx, k + 4)
        ELSE IF left = 3
        THEN << sx[k] * 4 + sx[k + 1] \div 16,
                (sx[k + 1] % 16) * 16 + sx[k + 2] \div 4 >>
        ELSE << sx[k] * 4 + sx[k + 1] \div 16 >>

\* base64::decode(text): Err(DecodeError) for a character outside the
\* alphabet, for a length that leaves a single sextet, and for a last sextet
\* with bits that belong to no byte.
Base64Decode(text) ==
    LET body == StripPadding(text)
        sx   == [k \in 1..Len(body) |-> Sextet(SubSeq(body, k, k))]
        last == Len(body) % 4
    IN  IF \E k \in 1..Len(body) : sx[k] = -1 THEN [ok |-> FALSE, bytes |-> <<>>]
        ELSE IF last = 1 THEN [ok |-> FALSE, bytes |-> <<>>]
        ELSE IF last = 2 /\ sx[Len(body)] % 16 # 0 THEN [ok |-> FALSE, bytes |-> <<>>]
        ELSE IF last = 3 /\ sx[Len(body)] % 4 # 0 THEN [ok |-> FALSE, bytes |-> <<>>]
        ELSE [ok |-> TRUE, bytes |-> Quanta(sx, 1)]

(***************************************************************************)
(* flate2::read::GzDecoder.  One gzip member: a header of ten bytes        *)
(* (flags 0), a deflate stream, CRC-32 and length of the output.  The      *)
(* deflate streams of the model are made of stored blocks.                 *)
(***************************************************************************)
\* The w low bits of n, least significant first.
Bits(n, w) == [k \in 1..w |-> (n \div (2 ^ (k - 1))) % 2]

\* The 32 bits of four bytes, least significant byte first.
Bits32(b) == Bits(b[1], 8) \o Bits(b[2], 8) \o Bits(b[3], 8) \o Bits(b[4], 8)

Xor32(a, b) == [k \in 1..32 |-> (a[k] + b[k]) % 2]

\* The reflected CRC-32 polynomial 0xEDB88320.
CrcPoly == Bits32(<<32, 131, 184, 237>>)

\* One bit of the CRC: shift right, xor the polynomial when a 1 fell out.
CrcShift(c) ==
    LET shifted == [k \in 1..32 |-> IF k < 32 THEN c[k + 1] ELSE 0]
    IN  IF c[1] = 1 THEN Xor32(shifted, CrcPoly) ELSE shifted

CrcByte(c, byte) ==
    LET c0 == Xor32(c, Bits32(<<byte, 0, 0, 0>>))
    IN  CrcShift(CrcShift(CrcShift(CrcShift(CrcShift(CrcShift(CrcShift(CrcShift(c0))))))))

RECURSIVE CrcOver(_, _, _)
CrcOver(c, bytes, k) ==
    IF k > Len(bytes) THEN c ELSE CrcOver(CrcByte(c, bytes[k]), bytes, k + 1)

\* CRC-32 of the bytes, as 32 bits.
Crc32(bytes) ==
    LET ones == [k \in 1..32 |-> 1]
    IN  Xor32(CrcOver(ones, bytes, 1), ones)

\* The deflate stream from position pos: [ok, out, next], next the position
\* after the final block.  A stored block is its header byte, LEN, NLEN (the
\* complement of LEN) and LEN bytes; block type 3 is invalid; the stream
\* ending inside a block is an error.  Compressed blocks (types 1 and 2) are
\* not decoded here.
RECURSIVE Inflate(_, _, _)
Inflate(bytes, pos, out) ==
    IF pos > Len(bytes) THEN [ok |-> FALSE, out |-> out, next |-> pos]
    ELSE LET bfinal == bytes[pos] % 2
             btype  == (bytes[pos] \div 2) % 4
         IN  IF btype # 0 \/ pos + 4 > Len(bytes)
             THEN [ok |-> FALSE, out |-> out, next |-> pos]
             ELSE LET len  == bytes[pos + 1] + 256 * bytes[pos + 2]
                      nlen == bytes[pos + 3] + 256 * bytes[pos + 4]
                      data == SubSeq(bytes, pos + 5, pos + 4 + len)
                  IN  IF len + nlen # 65535 \/ pos + 4 + len > Len(bytes)
                      THEN [ok |-> FALSE, out |-> out, next |-> pos]
                      ELSE IF bfinal = 1
                      THEN [ok |-> TRUE, out |-> out \o data, next |-> pos + 5 + len]
                      ELSE Inflate(bytes, pos + 5 + len, out \o data)

\* GzDecoder::new(&bytes[..]).read_to_end(&mut s): an io::Error for a short
\* or wrong header, a broken deflate stream, a short trailer, a CRC or a
\* length that does not match.
GzDecode(bytes) ==
    IF Len(bytes) < 10 THEN [ok |-> FALSE, bytes |-> <<>>]
    ELSE IF bytes[1] # 31 \/ bytes[2] # 139 \/ bytes[3] # 8 \/ bytes[4] # 0
    THEN [ok |-> FALSE, bytes |-> <<>>]
    ELSE LET r == Inflate(bytes, 11, <<>>)
         IN  IF ~r.ok \/ r.next + 7 > Len(bytes) THEN [ok |-> FALSE, bytes |-> <<>>]
             ELSE IF Bits32(SubSeq(bytes, r.next, r.next + 3)) # Crc32(r.out)
             THEN [ok |-> FALSE, bytes |-> <<>>]
             ELSE IF Bits32(SubSeq(bytes, r.next + 4, r.next + 7))
                       # Bits32(<<Len(r.out), 0, 0, 0>>)
             THEN [ok |-> FALSE, bytes |-> <<>>]
             ELSE [ok |-> TRUE, bytes |-> r.out]

\* Movie::decode_reader
decode_reader(bytes) == GzDecode(bytes)

(***************************************************************************)
(* Movie::save_subs.  The files written are kept in fs beside the videos.  *)
(***************************************************************************)
\* The file that holds the bytes.
FileOfBytes(bytes) ==
    [exists |-> TRUE, size |-> Len(bytes),
     marks |-> [o \in {k - 1 : k \in {j \in 1..Len(bytes) : bytes[j] # 0}} |-> bytes[o + 1]]]

\* File::create(path) succeeding: the file exists and is empty, whatever it
\* held before.
FileCreate(files, path) == (path :> FileOfBytes(<<>>)) @@ files

\* file.write_all(bytes) on the file just created.
WriteAll(files, path, bytes) == (path :> FileOfBytes(bytes)) @@ files

\* The position of the first sub that has a payload from position k on, 0
\* when there is none: the loop of save_subs with its `continue`.
RECURSIVE FirstWithPayload(_, _)
FirstWithPayload(subs, k) ==
    IF k > Len(subs) THEN 0
    ELSE IF subs[k].b64gz.some THEN k ELSE FirstWithPayload(subs, k + 1)

\* The body of the loop of save_subs at the first sub with a payload:
\* base64::decode, set_extension, File::create, decode_reader, write_all,
\* each `?` returning its error.  create_ok is whether the file system lets
\* the file be created.
save_subs_from(movie, files, k, create_ok) ==
    LET sub      == movie.subs[k]
        decoded  == Base64Decode(sub.b64gz.val)
        sub_path == set_extension(movie.path, sub.lang \o "." \o sub.format)
        created  == FileCreate(files, sub_path.path)
        extracted == decode_reader(decoded.bytes)
    IN  IF ~decoded.ok THEN [ok |-> FALSE, err |-> "Base64", sub |-> k, files |-> files]
        ELSE IF ~sub_path.ok THEN [ok |-> FALSE, err |-> "BadPath", sub |-> k, files |-> files]
        ELSE IF ~create_ok
        THEN [ok |-> FALSE, err |-> "Io", sub |-> k, files |-> files]
        ELSE IF ~extracted.ok
        THEN [ok |-> FALSE, err |-> "Io", sub |-> k, files |-> created]
        ELSE [ok |-> TRUE, sub |-> k, path |-> sub_path.path,
              files |-> WriteAll(created, sub_path.path, extracted.bytes)]

\* Movie::save_subs
save_subs(movie, files, create_ok) ==
    LET k == FirstWithPayload(movie.subs, 1)
    IN  IF k = 0 THEN [ok |-> FALSE, err |-> "NothingToSave", sub |-> 0, files |-> files]
        ELSE save_subs_from(movie, files, k, create_ok)

\* movies[i].save_subs(); result keeps the movie and the files before.
SaveSubs(i, create_ok) ==
    /\ i \in 1..Len(movies)
    /\ \E r \in {save_subs(movies[i], fs, create_ok)} :
        /\ fs' = r.files
        /\ result' = IF r.ok
                     THEN [op |-> "save_subs", movie |-> i, ok |-> TRUE, sub |-> r.sub,
                           path |-> r.path, create_ok |-> create_ok, before |-> fs]
                     ELSE [op |-> "save_subs", movie |-> i, ok |-> FALSE, err |-> r.err,
                           sub |-> r.sub, create_ok |-> create_ok, before |-> fs]
    /\ UNCHANGED <<movies, user, requests, tried, calls>>

(***************************************************************************)
(* Payloads a DownloadSubtitles response may carry.                        *)
(***************************************************************************)
\* base64 of the gzip member (one stored block) of the two bytes "1\n".
PayloadGood == "H4sIAAAAAAAEAwECAP3/MQpT/FFnAgAAAA=="

\* No base64: "!" is outside the alphabet.
PayloadBadBase64 == "H4s!"

\* base64 of the first three bytes of a gzip header.
PayloadTruncated == "H4sI"

\* base64 of a gzip member of two bytes whose CRC-32 is wrong in one byte.
PayloadBadCrc == "H4sIAAAAAAAEAwECAP3/SGkODhdOAgAAAA=="

(***************************************************************************)
(* The selection specification: one logged-in user and one fingerprinted   *)
(* movie; the environment chooses the hits of the search response and the  *)
(* candidates handed to choose_best.                                       *)
(***************************************************************************)
\* The longest array of hits in a search response.
MaxHits == 4

\* The longest candidate vector handed to choose_best.
MaxCands == 3

SeqsUpTo(S, n) == UNION {[1..k -> S] : k \in 0..n}

Hash1 == "0000000000020000"

Hash2 == "fe00000000020001"

\* The rating and language of a hit or candidate: three ratings in the
\* requested language, the greatest of them in another language.
SelectKinds ==
    {<<"2.0", 20, "eng">>, <<"3.0", 30, "eng">>, <<"7.5", 75, "eng">>, <<"7.5", 75, "pol">>}

SelectHits ==
    {Struct([MovieHash |-> Str(Hash1), IDSubtitleFile |-> Str(id), SubFormat |-> Str("srt"),
             SubRating |-> Str(kind[1]), SubLanguageID |-> Str(kind[3])]) :
        id \in {"s1", "s2"}, kind \in SelectKinds}

SelectReplies ==
    {Delivered(Struct([status |-> Str("200 OK"), data |-> Arr(hits)])) :
        hits \in SeqsUpTo(SelectHits, MaxHits)}

SelectCands ==
    {[moviehash |-> h, subid |-> id, rating |-> FNum(kind[2]), sublanguageid |-> kind[3]] :
        h \in {Hash1, Hash2}, id \in {"s1", "s2"}, kind \in SelectKinds}

InitSelect ==
    /\ fs = [p \in {"a.mp4"} |-> [exists |-> TRUE, size |-> 131072, marks |-> <<>>]]
    /\ movies = <<[path |-> "a.mp4", os_info |-> Some([hash |-> Hash1, size |-> 131072]),
                   subs |-> <<>>]>>
    /\ user = Some([api |-> LOGIN_LOCATION, token |-> "t", sublanguageid |-> "eng"])
    /\ requests = <<>>
    /\ result = NoResult
    /\ tried = {1}
    /\ calls = [login |-> 1, search |-> 0, download |-> 0]

\* One selection in each behaviour: a search followed by filter_subs, or one
\* call of choose_best.
NextSelect ==
    \/ /\ result.op = "none"
       /\ \E reply \in SelectReplies : Search(reply)
    \/ /\ result.op = "search" /\ result.ok
       /\ \E i \in 1..Len(movies) : FilterSubs(i)
    \/ /\ result.op = "none"
       /\ \E candidates \in SeqsUpTo(SelectCands, MaxCands) : ChooseBest(candidates)

SpecSelect == InitSelect /\ [][NextSelect]_vars

(***************************************************************************)
(* Ratings.  A search whose hits carry any text as SubRating, followed by  *)
(* filter_subs on the movie, again and again.                              *)
(***************************************************************************)
\* The longest array of hits in a response of these behaviours.
MaxFilterHits == 3

\* SubRating texts: a usual rating, zero, -1, a rating below -1, NaN, and
\* text that is no number.
FilterRatings == {"7.5", "0", "-1", "-2.5", "NaN", "n/a"}

FilterHits ==
    {Struct([MovieHash |-> Str(Hash1), IDSubtitleFile |-> Str(id), SubFormat |-> Str("srt"),
             SubRating |-> Str(rating), SubLanguageID |-> Str("eng")]) :
        id \in {"s1", "s2"}, rating \in FilterRatings}

FilterReplies ==
    {Delivered(Struct([status |-> Str("200 OK"), data |-> Arr(hits)])) :
        hits \in SeqsUpTo(FilterHits, MaxFilterHits)}

NextFilter ==
    \/ /\ result.op = "none"
       /\ \E reply \in FilterReplies : Search(reply)
    \/ /\ result.op = "search"
       /\ FilterSubs(1)
    \/ /\ result.op = "filter_subs"
       /\ FilterSubs(1)

SpecFilter == InitSelect /\ [][NextFilter]_vars

(***************************************************************************)
(* The run: the movies are fingerprinted one after the other, then login,  *)
(* search, filter_subs on each movie, download, save_subs on each movie.   *)
(* A stage is entered with the movies the stage before returned.           *)
(***************************************************************************)
\* The longest array of hits in a search response of the run.
MaxRunHits == 2

\* The longest array of items in a download response of the run.
MaxRunItems == 1

Paths == <<"a.mp4", "b.mp4">>

File1 == [exists |-> TRUE, size |-> 131072, marks |-> <<>>]

File2 == [exists |-> TRUE, size |-> 131073, marks |-> (7 :> 255 @@ 131072 :> 255)]

RunFiles == {[exists |-> FALSE, size |-> 0, marks |-> <<>>], File1, File2}

Token == "tok"

LoginReplies ==
    {TransportError,
     Delivered(Struct([token |-> Str(Token)])),
     Delivered(Struct([status |-> IntVal(200), token |-> Str(Token)])),
     Delivered(Struct([status |-> Str("401 Unauthorized"), token |-> Str(Token)])),
     Delivered(Struct([status |-> Str("200 OK")])),
     Delivered(Struct([status |-> Str("200 OK"), token |-> Str(Token)])),
     Delivered(Struct([status |-> Str("200 OK"), token |-> IntVal(7)])),
     Delivered(Struct([status |-> Str("200 OK"), token |-> Str(Token),
                       data |-> Arr(<<Str("https://alt/xml-rpc")>>)])),
     Delivered(Struct([status |-> Str("200 OK"), token |-> Str(Token),
                       data |-> Struct("Content-Location" :> IntVal(7))])),
     Delivered(Struct([status |-> Str("200 OK"), token |-> Str(Token),
                       data |-> Struct("Content-Location" :> Str("https://alt/xml-rpc"))]))}

\* The hits of the run: two for the fingerprint of File1, one for that of
\* File2, and one for File1 whose SubRating is an Int, no string.
RunHits ==
    {Struct([MovieHash |-> Str(hit[1]), IDSubtitleFile |-> Str(hit[2]),
             SubFormat |-> Str("srt"), SubRating |-> Str("7.5"),
             SubLanguageID |-> Str("eng")]) :
        hit \in {<<Hash1, "s1">>, <<Hash1, "s2">>, <<Hash2, "s1">>}} \cup
    {Struct([MovieHash |-> Str(Hash1), IDSubtitleFile |-> Str("s3"),
             SubFormat |-> Str("srt"), SubRating |-> IntVal(7),
             SubLanguageID |-> Str("eng")])}

\* The members about the response beside data: none, a status that is no
\* string, a status of failure, the status of success.
Statuses ==
    {EmptyMap, [status |-> IntVal(200)], [status |-> Str("401 Unauthorized")],
     [status |-> Str("200 OK")]}

SearchReplies ==
    {TransportError} \cup
    {Delivered(Struct(st @@ [data |-> Arr(hits)])) :
        st \in Statuses, hits \in SeqsUpTo(RunHits, MaxRunHits)}

\* The items of the run: a payload for s1, one for s2, and an item without
\* its data.
RunItems ==
    {Struct([idsubtitlefile |-> Str(item[1]), data |-> Str(item[2])]) :
        item \in {<<"s1", PayloadGood>>, <<"s2", PayloadGood>>}} \cup
    {Struct([idsubtitlefile |-> Str("s2")])}

DownloadReplies ==
    {TransportError} \cup
    {Delivered(Struct(st @@ [data |-> Arr(items)])) :
        st \in Statuses, items \in SeqsUpTo(RunItems, MaxRunItems)}

Init ==
    /\ \E n \in 0..Len(Paths) :
        /\ fs \in [{Paths[k] : k \in 1..n} -> RunFiles]
        /\ movies = Collection(SubSeq(Paths, 1, n))
    /\ user = None
    /\ requests = <<>>
    /\ result = NoResult
    /\ tried = {}
    /\ calls = [login |-> 0, search |-> 0, download |-> 0]

Next ==
    \/ /\ calls.login = 0
       /\ ComputeOsHash(Cardinality(tried) + 1)
    \/ /\ tried = 1..Len(movies)
       /\ calls.search = 0
       /\ \E reply \in LoginReplies : Login("", "", "eng", reply)
    \/ /\ result.op = "login"
       /\ \E reply \in SearchReplies : Search(reply)
    \/ /\ result.op = "search"
       /\ FilterSubs(1)
    \/ /\ result.op = "filter_subs"
       /\ FilterSubs(result.movie + 1)
    \/ /\ \/ result.op = "search"
          \/ result.op = "filter_subs" /\ result.movie = Len(movies)
       /\ movies # <<>>
       /\ \E reply \in DownloadReplies : Download(reply)
    \/ /\ result.op = "download"
       /\ \E create_ok \in BOOLEAN : SaveSubs(1, create_ok)
    \/ /\ result.op = "save_subs"
       /\ \E create_ok \in BOOLEAN : SaveSubs(result.movie + 1, create_ok)

Spec == Init /\ [][Next]_vars

(***************************************************************************)
(* The save specification: one movie with any path and any subs of the     *)
(* model, the destination present or not before save_subs is called.       *)
(***************************************************************************)
\* The longest list of subs of the movie saved.
MaxSaveSubs == 2

SavePaths == {"movie.mp4", "dir.d/movie", "dir/a.tar.gz", ".hidden", "..", ""}

SavePayloads ==
    {None, Some(PayloadGood), Some(PayloadBadBase64), Some(PayloadTruncated),
     Some(PayloadBadCrc)}

SaveSubsSet ==
    {[id |-> "s1", lang |-> lang, format |-> "srt", rating |-> FNum(75), b64gz |-> b64gz] :
        lang \in {"eng", "pol"}, b64gz \in SavePayloads}

\* A file that was at the destination before: three bytes.
OldFile == [exists |-> TRUE, size |-> 3, marks |-> (0 :> 111 @@ 1 :> 108 @@ 2 :> 100)]

\* The files before: none, or an old file at the destination of the movie's
\* English subtitle.
FilesBefore(path) ==
    {EmptyMap} \cup
    {(set_extension(path, lang \o ".srt").path :> OldFile) :
        lang \in {l \in {"eng"} : set_extension(path, l \o ".srt").ok}}

InitSave ==
    /\ \E path \in SavePaths :
        /\ fs \in FilesBefore(path)
        /\ \E subs \in SeqsUpTo(SaveSubsSet, MaxSaveSubs) :
               movies = <<[path |-> path, os_info |-> None, subs |-> subs]>>
    /\ user = None
    /\ requests = <<>>
    /\ result = NoResult
    /\ tried = {}
    /\ calls = [login |-> 0, search |-> 0, download |-> 0]

NextSave ==
    /\ result.op = "none"
    /\ \E create_ok \in BOOLEAN : SaveSubs(1, create_ok)

SpecSave == InitSave /\ [][NextSave]_vars

(***************************************************************************)
(* The files of the hash specification.                                    *)
(***************************************************************************)
\* How many bytes of a file may be non-zero.
MaxMarks == 2

MarkBytes == {255}

HashSizes == {0, 65528, 65535, 65536, 131071, 131072, 131073, 200000}

\* The offsets that may hold a non-zero byte: the least and the most
\* significant byte of the first word, the first byte of the last block and
\* the last byte of the file.
MarkOffsets(size) ==
    {o \in {0, 7, size - BLOCK, size - 1} : 0 <= o /\ o < size}

NoFile == [exists |-> FALSE, size |-> 0, marks |-> <<>>]

FilesOfSize(size) ==
    {[exists |-> TRUE, size |-> size, marks |-> m] :
        m \in UNION {[O -> MarkBytes] :
                O \in {X \in SUBSET MarkOffsets(size) : Cardinality(X) <= MaxMarks}}}

HashFiles == {NoFile} \cup UNION {FilesOfSize(s) : s \in HashSizes}

InitHash ==
    /\ fs \in [{"a.mp4"} -> HashFiles]
    /\ movies = Collection(<<"a.mp4">>)
    /\ user = None
    /\ requests = <<>>
    /\ result = NoResult
    /\ tried = {}
    /\ calls = [login |-> 0, search |-> 0, download |-> 0]

NextHash == \E i \in 1..Len(movies) : ComputeOsHash(i)

SpecHash == InitHash /\ [][NextHash]_vars

(***************************************************************************)
(* The hash as the specification states it, computed from the file alone:  *)
(* column sums of the bytes in base 256, then the carries; no loop over    *)
(* the words and no u64 of the model above.                                *)
(***************************************************************************)
RECURSIVE SumOver(_, _)
SumOver(S, m) ==
    IF S = {} THEN 0
    ELSE LET o == CHOOSE x \in S : TRUE IN m[o] + SumOver(S \ {o}, m)

\* Byte k (0 = least significant) of the file length.
SizeByte(size, k) == IF k >= 4 THEN 0 ELSE (size \div (256 ^ k)) % 256

\* The sum of byte k of: the length, the words of the first 65536 bytes and
\* the words of the 65536 bytes ending at end-of-file.
ColumnSum(f, k) ==
    LET first == {o \in DOMAIN f.marks : o < 65536 /\ o % 8 = k}
        last  == {o \in DOMAIN f.marks :
                     o >= f.size - 65536 /\ (o - (f.size - 65536)) % 8 = k}
    IN  SizeByte(f.size, k) + SumOver(first, f.marks) + SumOver(last, f.marks)

RECURSIVE ColumnTotal(_, _)
ColumnTotal(f, k) ==
    ColumnSum(f, k) + (IF k = 0 THEN 0 ELSE ColumnTotal(f, k - 1) \div 256)

HexDigitOf(d) == SubSeq("0123456789abcdef", d + 1, d + 1)

RECURSIVE RefHexFrom(_, _)
RefHexFrom(f, k) ==
    LET b == ColumnTotal(f, k) % 256
    IN  HexDigitOf(b \div 16) \o HexDigitOf(b % 16)
          \o (IF k = 0 THEN "" ELSE RefHexFrom(f, k - 1))

\* (size + first words + last words) mod 2^64 as sixteen hex digits.
RefHex(f) == RefHexFrom(f, 7)

RECURSIVE IntHex(_, _)
IntHex(n, width) ==
    IF width = 0 THEN "" ELSE IntHex(n \div 16, width - 1) \o HexDigitOf(n % 16)

FileOf(i) == fs[movies[i].path]

\* C1: for every file of at least 131072 bytes os_hash succeeds, the hash is
\* (size + sum of the first 8192 little-endian words + sum of the last 8192
\* little-endian words) mod 2^64, every addition wrapping, and the size
\* returned is the file length.
C1_HashIsWrappingSum ==
    \A i \in tried :
        (FileOf(i).exists /\ FileOf(i).size >= 131072) =>
            /\ movies[i].os_info =
                   Some([hash |-> RefHex(FileOf(i)), size |-> FileOf(i).size])
            /\ (result.op = "compute_os_hash" /\ result.movie = i) => result.ok

\* A file of 131073 bytes whose two marked words sum beyond 2^64 was hashed.
C1_Witness ==
    \E i \in tried :
        /\ FileOf(i).exists /\ FileOf(i).size = 131073
        /\ FileOf(i).marks = (7 :> 255 @@ 131072 :> 255)
        /\ movies[i].os_info = Some([hash |-> "fe00000000020001", size |-> 131073])

LowerHexChars ==
    {"0", "1", "2", "3", "4", "5", "6", "7", "8", "9", "a", "b", "c", "d", "e", "f"}

\* C2: the hash field is always exactly 16 lowercase hex digits, zero-padded;
\* for a file whose summed words are all zero it is the size in hex, and the
\* all-zero file of 131072 bytes gives "0000000000020000" and size 131072.
C2_HashIsSixteenHexDigits ==
    \A i \in tried :
        movies[i].os_info.some =>
            LET h == movies[i].os_info.val
            IN  /\ Len(h.hash) = 16
                /\ \A k \in 1..16 : SubSeq(h.hash, k, k) \in LowerHexChars
                /\ FileOf(i).marks = <<>> => h.hash = IntHex(FileOf(i).size, 16)
                /\ (FileOf(i).marks = <<>> /\ FileOf(i).size = 131072) =>
                       h = [hash |-> "0000000000020000", size |-> 131072]

\* The all-zero file of 131072 bytes was hashed.
C2_Witness ==
    \E i \in tried :
        /\ FileOf(i).exists /\ FileOf(i).size = 131072 /\ FileOf(i).marks = <<>>
        /\ movies[i].os_info = Some([hash |-> "0000000000020000", size |-> 131072])

\* C3: for every file shorter than 65536 bytes os_hash returns an I/O error,
\* never Ok, and compute_os_hash leaves the movie's os_info None.
C3_ShortFileIsIoError ==
    \A i \in tried :
        (FileOf(i).exists /\ FileOf(i).size < 65536) =>
            /\ movies[i].os_info = None
            /\ (result.op = "compute_os_hash" /\ result.movie = i) =>
                   (~result.ok /\ result.err = "Io")

\* compute_os_hash was called on a file of 65535 bytes and returned the error.
C3_Witness ==
    \E i \in tried :
        /\ FileOf(i).exists /\ FileOf(i).size = 65535
        /\ result = [op |-> "compute_os_hash", movie |-> i, ok |-> FALSE, err |-> "Io"]
        /\ movies[i].os_info = None

(***************************************************************************)
(* Selection.  In a state reached by filter_subs, result.arg is the list   *)
(* before and the movie's subs the list after; in a state reached by       *)
(* choose_best, result.arg are the candidates and result.ret the map.      *)
(***************************************************************************)
Filtered == result.op = "filter_subs"

Before == result.arg

After == movies[result.movie].subs

Chosen == result.op = "choose_best"

Language == user.val.sublanguageid

\* The positions of subs that hold the greatest rating.
TopOf(subs) ==
    {k \in 1..Len(subs) : \A j \in 1..Len(subs) : subs[j].rating.x <= subs[k].rating.x}

\* The positions of the candidates of fingerprint h in the requested language
\* that hold the greatest rating among these.
TopFor(cands, h) ==
    LET own == {k \in 1..Len(cands) :
                   cands[k].moviehash = h /\ cands[k].sublanguageid = Language}
    IN  {k \in own : \A j \in own : cands[j].rating.x <= cands[k].rating.x}

Least(S) == CHOOSE k \in S : \A j \in S : k <= j

Greatest(S) == CHOOSE k \in S : \A j \in S : j <= k

Fingerprints(cands) == {cands[k].moviehash : k \in 1..Len(cands)}

C5_RetainedHasMaxRating ==
    /\ (Filtered /\ Len(Before) > 0) =>
           /\ Len(After) > 0
           /\ \A k \in 1..Len(After) :
                  After[k].rating = Before[Least(TopOf(Before))].rating
    /\ Chosen =>
           \A h \in DOMAIN result.ret :
               /\ TopFor(result.arg, h) # {}
               /\ result.ret[h].rating = result.arg[Least(TopFor(result.arg, h))].rating

\* C6 as stated: after filter_subs the movie's subs hold at most one entry,
\* whatever the list was, several entries with one remote id included.
C6_AtMostOneRetained == Filtered => Len(After) <= 1

\* C7 as stated: a candidate in another language than the requested one is
\* never retained, neither by choose_best nor by search followed by
\* filter_subs.
C7_OtherLanguageNeverRetained ==
    /\ Filtered => \A k \in 1..Len(After) : After[k].lang = Language
    /\ Chosen => \A h \in DOMAIN result.ret : result.ret[h].sublanguageid = Language

(***************************************************************************)
(* The remote calls.  In a state reached by login, search or download,     *)
(* result.arg is what the call was given and result.reply what the remote  *)
(* service answered (absent when no request was sent); requests is every   *)
(* request sent so far, in order.                                          *)
(***************************************************************************)
NoFingerprint(ms) == \A i \in 1..Len(ms) : ~ms[i].os_info.some

SearchStep == calls'.search = calls.search + 1

DownloadStep == calls'.download = calls.download + 1

\* The requests with the given method among the sent ones.
SentOf(method) == SelectSeq(requests, LAMBDA r : r.method = method)

\* C8: a search over movies none of which has os_info (the empty collection
\* included) fails with NothingToSearch and sends no request.
C8_NothingToSearch ==
    [][(SearchStep /\ NoFingerprint(movies)) =>
           /\ result'.op = "search"
           /\ ~result'.ok
           /\ result'.err = "NothingToSearch"
           /\ requests' = requests]_vars

\* search was called with two movies, neither fingerprinted, returned
\* NothingToSearch, and no SearchSubtitles request is among the sent ones.
C8_Witness ==
    /\ result.op = "search"
    /\ ~result.ok
    /\ result.err = "NothingToSearch"
    /\ Len(result.arg) = 2
    /\ NoFingerprint(result.arg)
    /\ Len(SentOf("SearchSubtitles")) = 0

\* A response was received by the last call.
Answered ==
    /\ result.op \in {"login", "search", "download"}
    /\ "reply" \in DOMAIN result
    /\ result.reply.delivered

\* The status member of the response, when it is a string.
ReplyStatus == AsStr(Get(result.reply.value, "status"))

\* The failed call left nothing behind: login no User, search and download
\* no movie (the Vec moved into the call is dropped with the Err).
NothingProduced == IF result.op = "login" THEN user = None ELSE movies = <<>>

\* C9: whatever else the response of login, search or download carries, a
\* string status other than "200 OK" gives BadStatus with that status, a
\* missing or non-string status gives Malformed, and neither produces a User
\* or a movie with updated subs or payloads.
C9_StatusCheckedFirst ==
    Answered =>
        /\ (ReplyStatus.some /\ ReplyStatus.val # "200 OK") =>
               /\ ~result.ok
               /\ result.err = "BadStatus"
               /\ result.status = ReplyStatus.val
               /\ NothingProduced
        /\ ~ReplyStatus.some =>
               /\ ~result.ok
               /\ result.err = "Malformed"
               /\ NothingProduced

\* search received status "401 Unauthorized" together with a hit for the
\* fingerprint of a movie it was given, and returned BadStatus.
C9_Witness ==
    /\ result.op = "search"
    /\ Answered
    /\ ReplyStatus = Some("401 Unauthorized")
    /\ \E k \in 1..Len(result.reply.value.m["data"].a) :
           \E i \in 1..Len(result.arg) :
               /\ result.arg[i].os_info.some
               /\ result.reply.value.m["data"].a[k].m["MovieHash"].s
                      = result.arg[i].os_info.val.hash
    /\ ~result.ok
    /\ result.err = "BadStatus"
    /\ result.status = "401 Unauthorized"
    /\ movies = <<>>

\* The requests the step sends, the earlier ones being kept.
KeepsSent ==
    /\ Len(requests') >= Len(requests)
    /\ SubSeq(requests', 1, Len(requests)) = requests

Added == SubSeq(requests', Len(requests) + 1, Len(requests'))

\* The positions of the movies that have os_info, in order.
RECURSIVE FingerprintedBefore(_, _)
FingerprintedBefore(ms, i) ==
    IF i <= 1 THEN 0
    ELSE FingerprintedBefore(ms, i - 1) + (IF ms[i - 1].os_info.some THEN 1 ELSE 0)

\* r is a SearchSubtitles request whose array holds, in the order of the
\* movies, the fingerprint and size of each movie with os_info and nothing
\* else.
IsSearchRequestFor(r, ms) ==
    /\ r.method = "SearchSubtitles"
    /\ Len(r.params) = 2
    /\ r.params[2].t = "array"
    /\ Len(r.params[2].a) = FingerprintedBefore(ms, Len(ms) + 1)
    /\ \A i \in 1..Len(ms) :
           ms[i].os_info.some =>
               LET entry == r.params[2].a[FingerprintedBefore(ms, i) + 1]
               IN  /\ entry.t = "struct"
                   /\ Get(entry, "moviehash") = Some(Str(ms[i].os_info.val.hash))
                   /\ Get(entry, "moviebytesize") = Some(IntVal(ms[i].os_info.val.size))

RECURSIVE SubsBefore(_, _)
SubsBefore(ms, i) ==
    IF i <= 1 THEN 0 ELSE SubsBefore(ms, i - 1) + Len(ms[i - 1].subs)

\* r is a DownloadSubtitles request whose array holds the id of every sub of
\* every movie, in order, and nothing else.
IsDownloadRequestFor(r, ms) ==
    /\ r.method = "DownloadSubtitles"
    /\ Len(r.params) = 2
    /\ r.params[2].t = "array"
    /\ Len(r.params[2].a) = SubsBefore(ms, Len(ms) + 1)
    /\ \A i \in 1..Len(ms) :
           \A k \in 1..Len(ms[i].subs) :
               r.params[2].a[SubsBefore(ms, i) + k] = Str(ms[i].subs[k].id)

SearchSendsOne ==
    /\ KeepsSent
    /\ Len(Added) = 1
    /\ IsSearchRequestFor(Added[1], movies)

DownloadSendsOne ==
    /\ KeepsSent
    /\ Len(Added) = 1
    /\ IsDownloadRequestFor(Added[1], movies)

\* A step that is no call of search or download sends no SearchSubtitles and
\* no DownloadSubtitles request.
OthersSendNone ==
    (~SearchStep /\ ~DownloadStep) =>
        /\ KeepsSent
        /\ \A k \in 1..Len(Added) :
               Added[k].method \notin {"SearchSubtitles", "DownloadSubtitles"}

\* C10 as stated: every call of search sends exactly one SearchSubtitles
\* request with one entry for each fingerprinted movie and none for the
\* others, every call of download exactly one DownloadSubtitles request with
\* the id of every sub of every movie, and nothing else sends either.
C10_OneRequestPerInvocation ==
    [][/\ SearchStep => SearchSendsOne
       /\ DownloadStep => DownloadSendsOne
       /\ OthersSendNone]_vars

\* C10 amended: a call of search given at least one fingerprinted movie sends
\* exactly one SearchSubtitles request, with one entry for each fingerprinted
\* movie and none for the others, and given no fingerprinted movie it sends
\* none; every call of download sends exactly one DownloadSubtitles request
\* with the id of every sub of every movie, an empty array when there is no
\* sub; nothing else sends either, whether the call failed or not.
C10_OneRequestWhenFingerprinted ==
    [][/\ SearchStep => (IF NoFingerprint(movies) THEN requests' = requests
                          ELSE SearchSendsOne)
       /\ DownloadStep => DownloadSendsOne
       /\ OthersSendNone]_vars

\* search was given one movie with a fingerprint and one without, download
\* the two movies with two subs in all, and download failed on the transport:
\* one SearchSubtitles request with the single entry and one
\* DownloadSubtitles request with the two ids were sent.
C10_Witness ==
    /\ result.op = "download"
    /\ ~result.ok
    /\ result.err = "Xmlrpc"
    /\ Len(result.arg) = 2
    /\ \E i \in 1..2 : ~result.arg[i].os_info.some
    /\ Len(SentOf("SearchSubtitles")) = 1
    /\ Len(SentOf("SearchSubtitles")[1].params[2].a) = 1
    /\ Len(SentOf("DownloadSubtitles")) = 1
    /\ Len(SentOf("DownloadSubtitles")[1].params[2].a) = 2
    /\ calls.search = 1
    /\ calls.download = 1

(***************************************************************************)
(* Payloads and saving.  In a state reached by save_subs, result.movie is  *)
(* the movie saved, result.before the files before the call and            *)
(* result.create_ok whether the file system let the file be created.       *)
(***************************************************************************)
Downloaded == result.op = "download" /\ result.ok

Saved == result.op = "save_subs"

\* The array of the response's data, empty when data is no array.
ReplyItems ==
    LET data == AsArray(Get(result.reply.value, "data"))
    IN  IF data.some THEN data.val ELSE <<>>

\* The positions of the items of the download response that carry the id and
\* a payload, both strings.
PayloadsFor(id) ==
    {k \in 1..Len(ReplyItems) :
        /\ Get(ReplyItems[k], "idsubtitlefile") = Some(Str(id))
        /\ AsStr(Get(ReplyItems[k], "data")).some}

\* The movie with the subs that have a payload alone.
WithPayloads(movie) ==
    [movie EXCEPT !.subs = SelectSeq(movie.subs, LAMBDA sub : sub.b64gz.some)]

\* C11: after a successful download a sub whose id has no payload in the
\* response has b64gz = None and a sub whose id has one has the payload
\* returned for it (the last, when the response repeats the id); and
\* save_subs ends as it would without the subs that have no payload: such a
\* sub raises no error and is not written, the next sub with a payload is
\* the one saved, and with no payload at all the outcome is that of a movie
\* without subs.
C11_MissingPayloadSkipped ==
    /\ Downloaded =>
           \A i \in 1..Len(movies) : \A k \in 1..Len(movies[i].subs) :
               LET sub == movies[i].subs[k]
                   at  == PayloadsFor(sub.id)
               IN  IF at = {} THEN sub.b64gz = None
                   ELSE sub.b64gz = AsStr(Get(ReplyItems[Greatest(at)], "data"))
    /\ Saved =>
           LET movie   == movies[result.movie]
               without == save_subs(WithPayloads(movie), result.before, result.create_ok)
           IN  /\ result.ok = without.ok
               /\ ~result.ok => result.err = without.err
               /\ fs = without.files
               /\ result.sub # 0 => movie.subs[result.sub].b64gz.some

\* A movie has the subs s1 and s2, the download response carried a payload
\* for s2 alone, and save_subs passed over s1 and saved s2.
C11_Witness ==
    /\ Saved
    /\ result.ok
    /\ result.sub = 2
    /\ Len(movies[result.movie].subs) = 2
    /\ movies[result.movie].subs[1].b64gz = None
    /\ movies[result.movie].subs[2].b64gz = Some(PayloadGood)
    /\ fs[result.path] = FileOfBytes(<<49, 10>>)

\* The movie save_subs was called on, and the sub it stopped at.
SavedMovie == movies[result.movie]

Stopped == SavedMovie.subs[result.sub]

\* Both stages of decoding succeed on the payload.
Decodes(b64) == Base64Decode(b64).ok /\ GzDecode(Base64Decode(b64).bytes).ok

\* C12 as stated: save_subs changes the files only when the movie has a sub
\* whose payload decodes in both stages, and when a stage fails on the sub
\* it stopped at no file was created or truncated: the files are those
\* before the call.
C12_NoFileUnlessDecoded ==
    Saved =>
        /\ fs # result.before =>
               \E k \in 1..Len(SavedMovie.subs) :
                   /\ SavedMovie.subs[k].b64gz.some
                   /\ Decodes(SavedMovie.subs[k].b64gz.val)
        /\ (result.sub # 0 /\ ~Decodes(Stopped.b64gz.val)) => fs = result.before

\* The destination the claim gives for the paths of the model: the same
\* directory, the name with its extension replaced.
Sibling(path, lang, format) ==
    CASE path = "movie.mp4"    -> "movie." \o lang \o "." \o format
      [] path = "dir.d/movie"  -> "dir.d/movie." \o lang \o "." \o format
      [] path = "dir/a.tar.gz" -> "dir/a.tar." \o lang \o "." \o format
      [] path = ".hidden"      -> ".hidden." \o lang \o "." \o format

\* The paths of the model without a file name.
NoFileName(path) == path \in {"", ".."}

\* save_subs returned Ok: the file is the sibling of the video and holds the
\* decoded payload, and no other file changed.
SavedToSibling ==
    (Saved /\ result.ok) =>
        /\ ~NoFileName(SavedMovie.path)
        /\ result.path = Sibling(SavedMovie.path, Stopped.lang, Stopped.format)
        /\ fs = (result.path :>
                    FileOfBytes(GzDecode(Base64Decode(Stopped.b64gz.val).bytes).bytes))
                 @@ result.before

\* C13 as stated: the file save_subs writes is the sibling of the video
\* named <stem>.<lang>.<format>; for a path without a file name save_subs
\* fails with BadPath and creates no file.
C13_SiblingOrBadPath ==
    /\ SavedToSibling
    /\ (Saved /\ NoFileName(SavedMovie.path)) =>
           /\ ~result.ok
           /\ result.err = "BadPath"
           /\ fs = result.before

\* C13 amended: the file save_subs writes is the sibling of the video named
\* <stem>.<lang>.<format>; for a path without a file name save_subs creates
\* no file and fails: with BadPath when the first sub with a payload has one
\* that is base64, with Base64 when that payload is no base64 (it is decoded
\* before the path is derived), with NothingToSave when no sub has a payload.
C13_SiblingOrNoFile ==
    /\ SavedToSibling
    /\ (Saved /\ NoFileName(SavedMovie.path)) =>
           /\ ~result.ok
           /\ fs = result.before
           /\ result.err =
                  (IF result.sub = 0 THEN "NothingToSave"
                   ELSE IF Base64Decode(Stopped.b64gz.val).ok THEN "BadPath"
                   ELSE "Base64")

\* save_subs was called on the movie of path ".." whose sub carries a good
\* payload, and failed with BadPath leaving the files as they were.
C13_Witness ==
    /\ Saved
    /\ SavedMovie.path = ".."
    /\ result.sub = 1
    /\ Stopped.b64gz = Some(PayloadGood)
    /\ ~result.ok
    /\ result.err = "BadPath"
    /\ fs = result.before

\* C14 as stated: a payload that is no base64 fails with the encoding kind
\* (Base64) before anything else is tried; a payload that is base64 of a
\* corrupt or cut gzip stream fails, once the file could be created, with a
\* kind that is neither the encoding kind nor Io, the kind of a failed
\* File::create.
C14_DecodeErrorKinds ==
    (Saved /\ result.sub # 0) =>
        LET decoded == Base64Decode(Stopped.b64gz.val)
        IN  /\ ~decoded.ok => (~result.ok /\ result.err = "Base64")
            /\ (decoded.ok /\ ~GzDecode(decoded.bytes).ok
                    /\ ~NoFileName(SavedMovie.path) /\ result.create_ok) =>
                   (~result.ok /\ result.err \notin {"Base64", "Io"})

(***************************************************************************)
(* Batches.  Fingerprinted(ms) is the batch without the movies whose       *)
(* fingerprinting failed.                                                  *)
(***************************************************************************)
Fingerprinted(ms) == SelectSeq(ms, LAMBDA movie : movie.os_info.some)

\* The batch holds a movie whose fingerprinting failed and one it succeeded
\* for.
Partial(ms) == Len(Fingerprinted(ms)) > 0 /\ Len(Fingerprinted(ms)) < Len(ms)

\* The response says success.
RepliedOk == result.reply.delivered /\ ReplyStatus = Some("200 OK")

\* C15: a movie whose file could not be opened for fingerprinting keeps
\* os_info = None, and on a
\* batch that holds such a movie beside fingerprinted ones search and
\* download succeed whenever the response says success, send the request of
\* the fingerprinted movies alone, leave the failed movie as it was and give
\* the others the subs and payloads they get without the failed movie in
\* the batch; save_subs of a movie depends on that movie alone.
C15_PartialFailure ==
    /\ \A i \in 1..Len(movies) :
           (i \in tried /\ ~FileOf(i).exists) => movies[i].os_info = None
    /\ (result.op = "search" /\ Partial(result.arg) /\ RepliedOk) =>
           /\ result.ok
           /\ IsSearchRequestFor(SentOf("SearchSubtitles")[calls.search], result.arg)
           /\ Fingerprinted(movies) =
                  AssignSubs(Fingerprinted(result.arg), extract_subids(result.reply.value))
           /\ Len(movies) = Len(result.arg)
           /\ \A i \in 1..Len(movies) :
                  /\ movies[i].os_info = result.arg[i].os_info
                  /\ ~movies[i].os_info.some => movies[i] = result.arg[i]
    /\ (result.op = "download" /\ Partial(result.arg) /\ RepliedOk) =>
           /\ result.ok
           /\ Fingerprinted(movies) =
                  AssignPayloads(Fingerprinted(result.arg), Payloads(result.reply.value))
           /\ Len(movies) = Len(result.arg)
           /\ \A i \in 1..Len(movies) :
                  /\ movies[i].os_info = result.arg[i].os_info
                  /\ ~movies[i].os_info.some => movies[i] = result.arg[i]
    /\ (Saved /\ Partial(movies)) =>
           LET alone == save_subs(SavedMovie, result.before, result.create_ok)
           IN  /\ result.ok = alone.ok
               /\ fs = alone.files

\* The first movie's file is missing and its os_info None, the second was
\* fingerprinted, got a sub from search and its payload from download, and
\* was saved.
C15_Witness ==
    /\ Saved
    /\ Len(movies) = 2
    /\ ~FileOf(1).exists
    /\ movies[1].os_info = None
    /\ movies[1].subs = <<>>
    /\ movies[2].os_info.some
    /\ result.movie = 2
    /\ result.ok
    /\ Stopped.b64gz = Some(PayloadGood)
    /\ fs[result.path] = FileOfBytes(<<49, 10>>)

\* The last call was a search or a download that sent its request.
BatchCall == result.op \in {"search", "download"} /\ "reply" \in DOMAIN result

\* Why the batch failed: no response, a status that is missing or no
\* string, a string status other than "200 OK"; "none" when it did not.
BatchFailure ==
    IF ~result.reply.delivered THEN "Xmlrpc"
    ELSE IF ~ReplyStatus.some THEN "Malformed"
    ELSE IF ReplyStatus.val # "200 OK" THEN "BadStatus"
    ELSE "none"

\* C16: a search or download that got no response, or a response whose
\* status is not the string "200 OK", returns Xmlrpc, Malformed or
\* BadStatus accordingly and no movie at all: nothing is left to hand to
\* the next stage, and no movie holds subs or payloads of the failed call.
C16_BatchFailureAborts ==
    (BatchCall /\ BatchFailure # "none") =>
        /\ ~result.ok
        /\ result.err = BatchFailure
        /\ movies = <<>>

\* download was given a movie with a sub, received a payload for that sub
\* under a status that is no string, and returned Malformed and no movie.
C16_Witness ==
    /\ result.op = "download"
    /\ BatchCall
    /\ BatchFailure = "Malformed"
    /\ \E i \in 1..Len(result.arg) : \E k \in 1..Len(result.arg[i].subs) :
           PayloadsFor(result.arg[i].subs[k].id) # {}
    /\ ~result.ok
    /\ result.err = "Malformed"
    /\ movies = <<>>

\* The token member of the login response, when it is a string.
ReplyToken ==
    LET v == result.reply.value
    IN  IF "token" \in DOMAIN v.m /\ v.m["token"].t = "string"
        THEN Some(v.m["token"].s) ELSE None

\* The Content-Location member of the struct data of the login response,
\* when it is a string.
ReplyLocation ==
    LET v == result.reply.value
    IN  IF /\ "data" \in DOMAIN v.m
           /\ v.m["data"].t = "struct"
           /\ "Content-Location" \in DOMAIN v.m["data"].m
           /\ v.m["data"].m["Content-Location"].t = "string"
        THEN Some(v.m["data"].m["Content-Location"].s) ELSE None

\* C17: login returns NoToken exactly when the response was received with
\* status "200 OK" and has no string token; with status "200 OK" and a
\* string token it returns the user with that token, whose api is the
\* string data.Content-Location of the response when there is one and
\* LOGIN_LOCATION otherwise; every later request goes to that api.
C17_NoTokenAndEndpoint ==
    /\ result.op = "login" =>
        /\ (~result.ok /\ result.err = "NoToken") <=>
               (Answered /\ ReplyStatus = Some("200 OK") /\ ~ReplyToken.some)
        /\ (Answered /\ ReplyStatus = Some("200 OK") /\ ReplyToken.some) =>
               /\ result.ok
               /\ user.some
               /\ user.val.token = ReplyToken.val
               /\ user.val.api = IF ReplyLocation.some THEN ReplyLocation.val
                                 ELSE LOGIN_LOCATION
    /\ \A k \in 1..Len(requests) :
           requests[k].method # "LogIn" => (user.some /\ requests[k].url = user.val.api)

\* The login response has status "200 OK" and a token that is an Int, no
\* string: login returned NoToken and no user.
C17_Witness ==
    /\ result.op = "login"
    /\ Answered
    /\ ReplyStatus = Some("200 OK")
    /\ "token" \in DOMAIN result.reply.value.m
    /\ ~ReplyToken.some
    /\ ~result.ok
    /\ result.err = "NoToken"
    /\ user = None

\* C18 as stated: every file shorter than 131072 bytes makes os_hash return
\* an error, its os_info staying None.
C18_SmallFileErrors ==
    \A i \in tried :
        (FileOf(i).exists /\ FileOf(i).size < 131072) =>
            /\ movies[i].os_info = None
            /\ (result.op = "compute_os_hash" /\ result.movie = i) => ~result.ok

\* C18: of the files shorter than 131072 bytes os_hash fails on those
\* shorter than 65536 bytes alone; on a file of 65536 to 131071 bytes it
\* returns the length and the wrapping sum of the length, the words of the
\* first 65536 bytes and the words of the last 65536 bytes, the bytes that
\* lie in both windows being summed twice.
C18_OverlappingWindowsHashed ==
    \A i \in tried :
        (FileOf(i).exists /\ FileOf(i).size < 131072) =>
            /\ movies[i].os_info = None <=> FileOf(i).size < 65536
            /\ FileOf(i).size >= 65536 =>
                   /\ movies[i].os_info =
                          Some([hash |-> RefHex(FileOf(i)), size |-> FileOf(i).size])
                   /\ (result.op = "compute_os_hash" /\ result.movie = i) => result.ok

\* A file of 65536 bytes whose first byte is 255 was hashed: both windows
\* are the whole file and the byte is summed twice.
C18_Witness ==
    \E i \in tried :
        /\ FileOf(i).exists /\ FileOf(i).size = 65536
        /\ FileOf(i).marks = (0 :> 255)
        /\ result = [op |-> "compute_os_hash", movie |-> i, ok |-> TRUE]
        /\ movies[i].os_info = Some([hash |-> "00000000000101fe", size |-> 65536])

\* The item has every member of names as a string.
HasStrings(item, names) ==
    /\ item.t = "struct"
    /\ \A name \in names : name \in DOMAIN item.m /\ item.m[name].t = "string"

\* The members an item of the last call's response has to carry.
RequiredFields ==
    IF result.op = "search"
    THEN {"MovieHash", "IDSubtitleFile", "SubFormat", "SubRating", "SubLanguageID"}
    ELSE {"data", "idsubtitlefile"}

\* C19: a search or download whose response says success and holds an item
\* that lacks a required member, or carries it as another type than
\* string, returns Malformed.
C19_MalformedItemReported ==
    (/\ result.op \in {"search", "download"}
     /\ Answered
     /\ ReplyStatus = Some("200 OK")
     /\ \E k \in 1..Len(ReplyItems) : ~HasStrings(ReplyItems[k], RequiredFields)) =>
        /\ ~result.ok
        /\ result.err = "Malformed"

\* The Subtitles of a well-formed hit.
SubOf(item) ==
    [format |-> item.m["SubFormat"].s,
     id     |-> item.m["IDSubtitleFile"].s,
     rating |-> ParseRating(item.m["SubRating"].s),
     lang   |-> item.m["SubLanguageID"].s,
     b64gz  |-> None]

\* The Subtitles of the well-formed hits of the response whose MovieHash is
\* hash, in the order of the response.
RECURSIVE HitsFrom(_, _)
HitsFrom(items, hash) ==
    IF Len(items) = 0 THEN <<>>
    ELSE (IF /\ HasStrings(Head(items), RequiredFields)
             /\ Head(items).m["MovieHash"].s = hash
          THEN <<SubOf(Head(items))>> ELSE <<>>)
         \o HitsFrom(Tail(items), hash)

\* C20: after a successful search the subs of every fingerprinted movie are
\* the well-formed hits of the response with the movie's hash, in response
\* order (none when no hit matches), also when two movies have one hash.
C20_CandidatesPerVideo ==
    (result.op = "search" /\ result.ok) =>
        \A i \in 1..Len(movies) :
            movies[i].os_info.some =>
                movies[i].subs = HitsFrom(ReplyItems, movies[i].os_info.val.hash)

\* small is big with some entries left out, the others in their order.
RECURSIVE IsSubSequence(_, _)
IsSubSequence(small, big) ==
    IF Len(small) = 0 THEN TRUE
    ELSE IF Len(big) = 0 THEN FALSE
    ELSE IF Head(small) = Head(big) /\ IsSubSequence(Tail(small), Tail(big)) THEN TRUE
    ELSE IsSubSequence(small, Tail(big))

\* filter_subs left a non-empty list non-empty.
NeverEmpties == (Filtered /\ Before # <<>>) => After # <<>>

\* filter_subs left a sub-sequence of the list it was given.
NeverInvents == Filtered => IsSubSequence(After, Before)

\* filter_subs applied to a list it had just filtered changes nothing.
SecondLeavesUnchanged ==
    (Filtered /\ result'.op = "filter_subs") => movies' = movies

\* C21: whatever the texts of SubRating (negative, NaN and unparsable ones
\* among them), filter_subs leaves a non-empty list non-empty, leaves a
\* sub-sequence of the list before, and changes nothing when applied a
\* second time.
C21_NeverInventsOrEmpties ==
    /\ []NeverEmpties
    /\ []NeverInvents
    /\ [][SecondLeavesUnchanged]_vars
====
